---- MODULE Spec2Model ----
(***************************************************************************)
(* Polled I2C0 master driver of the GD32V evaluation board BSP             *)
(* (src/bsp/i2c.c): bsp_i2c0_write, bsp_i2c0_reg8_write, bsp_i2c0_read and *)
(* bsp_i2c0_reg8_read, one action per statement that touches the           *)
(* peripheral.  The peripheral's status flags are inputs: every            *)
(* i2c_flag_get reads a value the hardware chooses.                        *)
(***************************************************************************)
EXTENDS Integers, Sequences, FiniteSets, TLC

\* ---------------------------------------------------------------- bounds
\* Largest byte count a caller passes (the parameter is a uint8_t).
MaxCount == 4
\* Number of bytes of caller memory that buffers may lie in.
MemSize == 4
\* Largest byte count passed when two contexts share the peripheral.
MaxShared == 1

\* ------------------------------------------------------------- constants
BSP_I2C_OK == "BSP_I2C_OK"
BSP_I2C_FAIL == "BSP_I2C_FAIL"
NoStatus == "none"

I2C_ACK_ENABLE == "I2C_ACK_ENABLE"
I2C_ACK_DISABLE == "I2C_ACK_DISABLE"
I2C_ACKPOS_CURRENT == "I2C_ACKPOS_CURRENT"
I2C_ACKPOS_NEXT == "I2C_ACKPOS_NEXT"
I2C_TRANSMITTER == "I2C_TRANSMITTER"
I2C_RECEIVER == "I2C_RECEIVER"

\* uint8_t arithmetic
Uint8 == 256
U8(x) == x % Uint8

\* Execution contexts that may call the driver.
Ctx == {1, 2}

\* Values the inputs are drawn from.
ByteVals == {17, 34}
DevAddrs == {80}
Regs == {7, 17}

\* Caller memory: MemSize bytes above the low 256 addresses; the two bytes of
\* bsp_i2c0_reg8_write's txbuffer follow it.
BufBase == Uint8
Addr == BufBase .. (BufBase + MemSize - 1)
TxBufPtr == BufBase + MemSize
TxBufAddr == {TxBufPtr, TxBufPtr + 1}

VARIABLES
    active,     \* the contexts that call the driver
    pc,         \* pc[c]: the statement context c is at
    top,        \* top[c]: the function c's caller called
    addr,       \* i2c_dev_7bit_addr
    data,       \* the data pointer of bsp_i2c0_write / bsp_i2c0_read
    count,      \* the count of bsp_i2c0_write / bsp_i2c0_read
    i,          \* the local i of bsp_i2c0_write / bsp_i2c0_read
    reg,        \* reg of the reg8 functions
    value,      \* value of bsp_i2c0_reg8_write, the pointer value of bsp_i2c0_reg8_read
    txbuffer,   \* txbuffer[2] of bsp_i2c0_reg8_write
    ret,        \* the status the called function returned, NoStatus while it runs
    inner,      \* the statuses returned by the calls a reg8 function made
    touched,    \* whether the running call has accessed the peripheral
    mem,        \* caller memory
    ack,        \* I2C_CTL0 ACKEN
    ackpos,     \* I2C_CTL0 POAP
    stopbit,    \* I2C_CTL0 STOP (0x0200)
    log         \* the peripheral operations done and the flag values awaited and seen

drv == <<pc, top, addr, data, count, i, reg, value, txbuffer, ret, inner, touched>>
hw == <<ack, ackpos, stopbit>>
vars == <<active, drv, mem, hw, log>>

Ev(c, op, arg) == [c |-> c, op |-> op, arg |-> arg]

Others(c) == active \ {c}

args == <<top, addr, data, count, i, reg, value, txbuffer>>

Touch(c) == touched' = [touched EXCEPT ![c] = TRUE]
Goto(c, here, next) == pc[c] = here /\ pc' = [pc EXCEPT ![c] = next]
Bit(v) == IF v THEN 1 ELSE 0

\* -------------------------------------------------- the peripheral's API
\* Each operator is one access of I2C0 by context c.

\* Mutant: the flag is read once and the loop left whatever it read.
WaitFlag_once(c, here, flag, awaited, next) ==
    /\ Goto(c, here, next)
    /\ \E v \in BOOLEAN :
         log' = IF v = awaited THEN Append(log, Ev(c, flag, Bit(v))) ELSE log
    /\ Touch(c)
    /\ UNCHANGED hw

\* i2c_flag_get in a polling loop: the flag reads v; the loop at `here` ends, and
\* the value is logged, when v is the value awaited.
WaitFlag(c, here, flag, awaited, next) ==
    /\ pc[c] = here
    /\ \E v \in BOOLEAN :
         IF v = awaited
           THEN /\ pc' = [pc EXCEPT ![c] = next]
                /\ log' = Append(log, Ev(c, flag, Bit(v)))
           ELSE UNCHANGED <<pc, log>>
    /\ Touch(c)
    /\ UNCHANGED hw

i2c_start_on_bus(c) ==
    /\ log' = Append(log, Ev(c, "start", 0))
    /\ Touch(c)
    /\ UNCHANGED hw

i2c_stop_on_bus(c) ==
    /\ log' = Append(log, Ev(c, "stop", 0))
    /\ stopbit' = TRUE
    /\ Touch(c)
    /\ UNCHANGED <<ack, ackpos>>

i2c_master_addressing(c, a, dir) ==
    /\ log' = Append(log, Ev(c, dir, a))
    /\ Touch(c)
    /\ UNCHANGED hw

i2c_flag_clear(c, flag) ==
    /\ log' = Append(log, Ev(c, "clear_" \o flag, 0))
    /\ Touch(c)
    /\ UNCHANGED hw

i2c_data_transmit(c, b) ==
    /\ log' = Append(log, Ev(c, "transmit", b))
    /\ Touch(c)
    /\ UNCHANGED hw

\* i2c_data_receive returning b
i2c_data_receive(c, b) ==
    /\ log' = Append(log, Ev(c, "receive", b))
    /\ Touch(c)
    /\ UNCHANGED hw

i2c_ack_config(c, v) ==
    /\ ack' = v
    /\ log' = Append(log, Ev(c, v, 0))
    /\ Touch(c)
    /\ UNCHANGED <<ackpos, stopbit>>

i2c_ackpos_config(c, v) ==
    /\ ackpos' = v
    /\ log' = Append(log, Ev(c, v, 0))
    /\ Touch(c)
    /\ UNCHANGED <<ack, stopbit>>

\* while (I2C_CTL0(I2C0) & 0x0200);
WaitStop(c, here, next) ==
    /\ pc[c] = here
    /\ IF ~stopbit
         THEN /\ pc' = [pc EXCEPT ![c] = next]
              /\ log' = Append(log, Ev(c, "STOP", 0))
         ELSE UNCHANGED <<pc, log>>
    /\ Touch(c)
    /\ UNCHANGED hw

\* The peripheral has generated the stop condition and clears the STOP bit.
HwStopDone ==
    /\ stopbit
    /\ stopbit' = FALSE
    /\ UNCHANGED <<active, drv, mem, ack, ackpos, log>>

\* ------------------------------------------------------------ memory
\* The values a read of *p can give: a byte of caller memory, a byte of
\* txbuffer, or, for a pointer to neither, whatever lies at that address.
Load(c, p) ==
    IF p \in Addr THEN {mem[p]}
    ELSE IF p \in TxBufAddr THEN {txbuffer[c][p - TxBufPtr + 1]}
    ELSE ByteVals

Store(p, b) ==
    mem' = IF p \in Addr THEN [mem EXCEPT ![p] = b] ELSE mem

\* ------------------------------------------------------------ returns
\* `return status` of bsp_i2c0_write / bsp_i2c0_read: to the caller of the
\* driver, or into the reg8 function that made the call.
Return(c, here, status) ==
    /\ pc[c] = here
    /\ IF top[c] \in {"bsp_i2c0_write", "bsp_i2c0_read"}
         THEN /\ pc' = [pc EXCEPT ![c] = "idle"]
              /\ ret' = [ret EXCEPT ![c] = status]
              /\ UNCHANGED inner
         ELSE /\ pc' = [pc EXCEPT ![c] =
                    IF top[c] = "bsp_i2c0_reg8_write" THEN "g8w_return"
                    ELSE IF here \in {"w_chk", "w_return"} THEN "g8r_read"
                    ELSE "g8r_return"]
              /\ inner' = [inner EXCEPT ![c] = Append(@, status)]
              /\ UNCHANGED ret

\* A call enters the driver: the log restarts when no other context is inside.
Enter(c) ==
    /\ c \in active
    /\ pc[c] = "idle"
    /\ ret' = [ret EXCEPT ![c] = NoStatus]
    /\ inner' = [inner EXCEPT ![c] = <<>>]
    /\ touched' = [touched EXCEPT ![c] = FALSE]
    /\ log' = IF \A d \in Others(c) : pc[d] = "idle" THEN <<>> ELSE log
    /\ UNCHANGED <<active, mem, hw>>

\* The parameters and locals named in `unused` do not exist in the call entered.
NoLocals(c, unused) ==
    /\ "i" \in unused => i' = [i EXCEPT ![c] = 0]
    /\ "reg" \in unused => reg' = [reg EXCEPT ![c] = 0]
    /\ "value" \in unused => value' = [value EXCEPT ![c] = 0]
    /\ "txbuffer" \in unused => txbuffer' = [txbuffer EXCEPT ![c] = <<0, 0>>]

\* A buffer of n bytes at p lies in caller memory.
Buffer(p, n) == p \in Addr /\ (n = 0 \/ p + n - 1 \in Addr)

\* ------------------------------------------------------ bsp_i2c0_write
call_bsp_i2c0_write(c) ==
    /\ Enter(c)
    /\ \E a \in DevAddrs, p \in Addr, n \in 0 .. MaxCount :
         /\ Buffer(p, n)
         /\ top' = [top EXCEPT ![c] = "bsp_i2c0_write"]
         /\ addr' = [addr EXCEPT ![c] = a]
         /\ data' = [data EXCEPT ![c] = p]
         /\ count' = [count EXCEPT ![c] = n]
    /\ pc' = [pc EXCEPT ![c] = "w_chk"]
    /\ NoLocals(c, {"i", "reg", "value", "txbuffer"})

\* Mutant: the zero-count test is missing.
write_check_unchecked(c) ==
    /\ Goto(c, "w_chk", "w_bsy")
    /\ i' = [i EXCEPT ![c] = count[c]]
    /\ UNCHANGED <<active, top, addr, data, count, reg, value, txbuffer, ret, inner,
                   touched, mem, hw, log>>

\* Mutant: the test is count <= 1.
write_check_offbyone(c) ==
    /\ pc[c] = "w_chk"
    /\ IF count[c] <= 1
         THEN /\ Return(c, "w_chk", BSP_I2C_FAIL)
              /\ UNCHANGED i
         ELSE /\ pc' = [pc EXCEPT ![c] = "w_bsy"]
              /\ i' = [i EXCEPT ![c] = count[c]]
              /\ UNCHANGED <<ret, inner>>
    /\ UNCHANGED <<active, top, addr, data, count, reg, value, txbuffer,
                   touched, mem, hw, log>>

\* if (count < 1) return BSP_I2C_FAIL;  uint8_t i = count;
write_check(c) ==
    /\ pc[c] = "w_chk"
    /\ IF count[c] < 1
         THEN /\ Return(c, "w_chk", BSP_I2C_FAIL)
              /\ UNCHANGED i
         ELSE /\ pc' = [pc EXCEPT ![c] = "w_bsy"]
              /\ i' = [i EXCEPT ![c] = count[c]]
              /\ UNCHANGED <<ret, inner>>
    /\ UNCHANGED <<active, top, addr, data, count, reg, value, txbuffer,
                   touched, mem, hw, log>>

Frame == UNCHANGED <<active, args, ret, inner, mem>>

write_wait_idle(c) ==
    WaitFlag(c, "w_bsy", "I2CBSY", FALSE, "w_start") /\ Frame

write_start(c) ==
    Goto(c, "w_start", "w_sbsend") /\ i2c_start_on_bus(c) /\ Frame

write_wait_sbsend(c) ==
    WaitFlag(c, "w_sbsend", "SBSEND", TRUE, "w_addr") /\ Frame

\* Mutant: the address is sent without the shift.
write_addressing_unshifted(c) ==
    /\ Goto(c, "w_addr", "w_addsend")
    /\ i2c_master_addressing(c, addr[c], I2C_TRANSMITTER)
    /\ Frame

write_addressing(c) ==
    /\ Goto(c, "w_addr", "w_addsend")
    /\ i2c_master_addressing(c, addr[c] * 2, I2C_TRANSMITTER)
    /\ Frame

write_wait_addsend(c) ==
    WaitFlag(c, "w_addsend", "ADDSEND", TRUE, "w_clear") /\ Frame

write_clear_addsend(c) ==
    Goto(c, "w_clear", "w_tbe") /\ i2c_flag_clear(c, "ADDSEND") /\ Frame

write_wait_tbe(c) ==
    WaitFlag(c, "w_tbe", "TBE", TRUE, "w_while") /\ Frame

\* while (i)
write_while(c) ==
    /\ Goto(c, "w_while", IF i[c] # 0 THEN "w_transmit" ELSE "w_stop")
    /\ UNCHANGED <<active, args, ret, inner, touched, mem, hw, log>>

\* i2c_data_transmit(I2C0, *data);
write_transmit(c) ==
    /\ Goto(c, "w_transmit", "w_tbe2")
    /\ \E b \in Load(c, data[c]) : i2c_data_transmit(c, b)
    /\ Frame

write_wait_tbe2(c) ==
    WaitFlag(c, "w_tbe2", "TBE", TRUE, "w_next") /\ Frame

\* data++; --i;
write_next(c) ==
    /\ Goto(c, "w_next", "w_while")
    /\ data' = [data EXCEPT ![c] = @ + 1]
    /\ i' = [i EXCEPT ![c] = U8(@ - 1)]
    /\ UNCHANGED <<active, top, addr, count, reg, value, txbuffer, ret, inner,
                   touched, mem, hw, log>>

\* Mutant: a second start condition is sent in place of the stop.
write_stop_restart(c) ==
    Goto(c, "w_stop", "w_stopwait") /\ i2c_start_on_bus(c) /\ Frame

write_stop(c) ==
    Goto(c, "w_stop", "w_stopwait") /\ i2c_stop_on_bus(c) /\ Frame

\* Mutant: the loop waits while the STOP bit is clear.
write_wait_stop_inverted(c) ==
    /\ pc[c] = "w_stopwait"
    /\ IF stopbit
         THEN /\ pc' = [pc EXCEPT ![c] = "w_return"]
              /\ log' = Append(log, Ev(c, "STOP", 1))
         ELSE UNCHANGED <<pc, log>>
    /\ Touch(c)
    /\ UNCHANGED hw
    /\ Frame

\* Mutant: the STOP bit is not awaited.
write_wait_stop_nowait(c) ==
    /\ Goto(c, "w_stopwait", "w_return")
    /\ UNCHANGED <<active, args, ret, inner, touched, mem, hw, log>>

write_wait_stop(c) ==
    WaitStop(c, "w_stopwait", "w_return") /\ Frame

\* return BSP_I2C_OK;
write_return(c) ==
    /\ Return(c, "w_return", BSP_I2C_OK)
    /\ UNCHANGED <<active, args, touched, mem, hw, log>>

bsp_i2c0_write(c) ==
    \/ write_check(c)
    \/ write_wait_idle(c)
    \/ write_start(c)
    \/ write_wait_sbsend(c)
    \/ write_addressing(c)
    \/ write_wait_addsend(c)
    \/ write_clear_addsend(c)
    \/ write_wait_tbe(c)
    \/ write_while(c)
    \/ write_transmit(c)
    \/ write_wait_tbe2(c)
    \/ write_next(c)
    \/ write_stop(c)
    \/ write_wait_stop(c)
    \/ write_return(c)

\* ------------------------------------------------- bsp_i2c0_reg8_write
\* Mutant: txbuffer is {value, reg}.
call_bsp_i2c0_reg8_write_swapped(c) ==
    /\ Enter(c)
    /\ \E a \in DevAddrs, r \in Regs, v \in ByteVals :
         /\ top' = [top EXCEPT ![c] = "bsp_i2c0_reg8_write"]
         /\ addr' = [addr EXCEPT ![c] = a]
         /\ reg' = [reg EXCEPT ![c] = r]
         /\ value' = [value EXCEPT ![c] = v]
         /\ txbuffer' = [txbuffer EXCEPT ![c] = <<v, r>>]
    /\ data' = [data EXCEPT ![c] = TxBufPtr]
    /\ count' = [count EXCEPT ![c] = Len(txbuffer'[c])]
    /\ pc' = [pc EXCEPT ![c] = "w_chk"]
    /\ NoLocals(c, {"i"})

\* uint8_t txbuffer[2] = {reg, value};
\* bsp_i2c0_write(i2c_dev_7bit_addr, (uint8_t*) txbuffer, sizeof(txbuffer));
call_bsp_i2c0_reg8_write(c) ==
    /\ Enter(c)
    /\ \E a \in DevAddrs, r \in Regs, v \in ByteVals :
         /\ top' = [top EXCEPT ![c] = "bsp_i2c0_reg8_write"]
         /\ addr' = [addr EXCEPT ![c] = a]
         /\ reg' = [reg EXCEPT ![c] = r]
         /\ value' = [value EXCEPT ![c] = v]
         /\ txbuffer' = [txbuffer EXCEPT ![c] = <<r, v>>]
    /\ data' = [data EXCEPT ![c] = TxBufPtr]
    /\ count' = [count EXCEPT ![c] = Len(txbuffer'[c])]
    /\ pc' = [pc EXCEPT ![c] = "w_chk"]
    /\ NoLocals(c, {"i"})

\* return BSP_I2C_OK;
reg8_write_return(c) ==
    /\ Goto(c, "g8w_return", "idle")
    /\ ret' = [ret EXCEPT ![c] = BSP_I2C_OK]
    /\ UNCHANGED <<active, args, inner, touched, mem, hw, log>>

bsp_i2c0_reg8_write(c) ==
    \/ call_bsp_i2c0_reg8_write(c)
    \/ reg8_write_return(c)

\* ------------------------------------------------------- bsp_i2c0_read
call_bsp_i2c0_read(c) ==
    /\ Enter(c)
    /\ \E a \in DevAddrs, p \in Addr, n \in 0 .. MaxCount :
         /\ Buffer(p, n)
         /\ top' = [top EXCEPT ![c] = "bsp_i2c0_read"]
         /\ addr' = [addr EXCEPT ![c] = a]
         /\ data' = [data EXCEPT ![c] = p]
         /\ count' = [count EXCEPT ![c] = n]
    /\ pc' = [pc EXCEPT ![c] = "r_chk"]
    /\ NoLocals(c, {"i", "reg", "value", "txbuffer"})

\* Mutant: the zero-count test is missing.
read_check_unchecked(c) ==
    /\ Goto(c, "r_chk", "r_ackpos")
    /\ i' = [i EXCEPT ![c] = 0]
    /\ UNCHANGED <<active, top, addr, data, count, reg, value, txbuffer, ret, inner,
                   touched, mem, hw, log>>

\* if (count < 1) return BSP_I2C_FAIL;  int i = 0;
read_check(c) ==
    /\ pc[c] = "r_chk"
    /\ IF count[c] < 1
         THEN /\ Return(c, "r_chk", BSP_I2C_FAIL)
              /\ UNCHANGED i
         ELSE /\ pc' = [pc EXCEPT ![c] = "r_ackpos"]
              /\ i' = [i EXCEPT ![c] = 0]
              /\ UNCHANGED <<ret, inner>>
    /\ UNCHANGED <<active, top, addr, data, count, reg, value, txbuffer,
                   touched, mem, hw, log>>

read_ackpos_next(c) ==
    Goto(c, "r_ackpos", "r_bsy") /\ i2c_ackpos_config(c, I2C_ACKPOS_NEXT) /\ Frame

read_wait_idle(c) ==
    WaitFlag(c, "r_bsy", "I2CBSY", FALSE, "r_start") /\ Frame

read_start(c) ==
    Goto(c, "r_start", "r_sbsend") /\ i2c_start_on_bus(c) /\ Frame

read_wait_sbsend(c) ==
    WaitFlag(c, "r_sbsend", "SBSEND", TRUE, "r_addr") /\ Frame

\* Mutant: the slave is addressed in transmitter direction.
read_addressing_transmitter(c) ==
    /\ Goto(c, "r_addr", "r_addsend")
    /\ i2c_master_addressing(c, addr[c] * 2, I2C_TRANSMITTER)
    /\ Frame

read_addressing(c) ==
    /\ Goto(c, "r_addr", "r_addsend")
    /\ i2c_master_addressing(c, addr[c] * 2, I2C_RECEIVER)
    /\ Frame

read_wait_addsend(c) ==
    WaitFlag(c, "r_addsend", "ADDSEND", TRUE, "r_clear") /\ Frame

\* Mutant: the loop branch is taken for count >= 2.
read_clear_addsend_ge2(c) ==
    /\ Goto(c, "r_clear", IF count[c] >= 2 THEN "r3_for" ELSE "r1_btc")
    /\ i2c_flag_clear(c, "ADDSEND")
    /\ Frame

\* i2c_flag_clear(I2C0, I2C_FLAG_ADDSEND);  if (count >= 3) ... else if (count == 2) ... else
read_clear_addsend(c) ==
    /\ Goto(c, "r_clear", IF count[c] >= 3 THEN "r3_for"
                          ELSE IF count[c] = 2 THEN "r2_btc" ELSE "r1_btc")
    /\ i2c_flag_clear(c, "ADDSEND")
    /\ Frame

\* Mutant: ACK is disabled when two bytes remain.
read3_for_tworemain(c) ==
    /\ Goto(c, "r3_for", IF i[c] < count[c]
                           THEN IF count[c] - 2 = i[c] THEN "r3_btc" ELSE "r3_rbne"
                           ELSE "r_stop")
    /\ UNCHANGED <<active, args, ret, inner, touched, mem, hw, log>>

\* Mutant: the loop test is i <= count.
read3_for_offbyone(c) ==
    /\ Goto(c, "r3_for", IF i[c] <= count[c]
                           THEN IF count[c] - 3 = i[c] THEN "r3_btc" ELSE "r3_rbne"
                           ELSE "r_stop")
    /\ UNCHANGED <<active, args, ret, inner, touched, mem, hw, log>>

\* for (i = 0; i < count; i++)  if ((count - 3) == i)
read3_for(c) ==
    /\ Goto(c, "r3_for", IF i[c] < count[c]
                           THEN IF count[c] - 3 = i[c] THEN "r3_btc" ELSE "r3_rbne"
                           ELSE "r_stop")
    /\ UNCHANGED <<active, args, ret, inner, touched, mem, hw, log>>

read3_wait_btc(c) ==
    WaitFlag(c, "r3_btc", "BTC", TRUE, "r3_ackdis") /\ Frame

read3_ack_disable(c) ==
    Goto(c, "r3_ackdis", "r3_rbne") /\ i2c_ack_config(c, I2C_ACK_DISABLE) /\ Frame

read3_wait_rbne(c) ==
    WaitFlag(c, "r3_rbne", "RBNE", TRUE, "r3_recv") /\ Frame

\* data[i] = i2c_data_receive(I2C0); the receive at `here` stores at data[k],
\* leaves i at k2 and goes to `next`.
Receive(c, here, k, k2, next) ==
    /\ Goto(c, here, next)
    /\ \E b \in ByteVals :
         /\ i2c_data_receive(c, b)
         /\ Store(data[c] + k, b)
    /\ i' = [i EXCEPT ![c] = k2]
    /\ UNCHANGED <<active, top, addr, data, count, reg, value, txbuffer, ret, inner>>

\* data[i] = i2c_data_receive(I2C0);  i++
read3_receive(c) == Receive(c, "r3_recv", i[c], i[c] + 1, "r3_for")

read2_wait_btc(c) ==
    WaitFlag(c, "r2_btc", "BTC", TRUE, "r2_rbne") /\ Frame

read2_wait_rbne(c) ==
    WaitFlag(c, "r2_rbne", "RBNE", TRUE, "r2_recv") /\ Frame

\* Mutant: data[i] without the increment.
read2_receive_noinc(c) == Receive(c, "r2_recv", i[c], i[c], "r2_rbne2")

\* data[i++] = i2c_data_receive(I2C0);
read2_receive(c) == Receive(c, "r2_recv", i[c], i[c] + 1, "r2_rbne2")

read2_wait_rbne2(c) ==
    WaitFlag(c, "r2_rbne2", "RBNE", TRUE, "r2_recv2") /\ Frame

\* data[i] = i2c_data_receive(I2C0);
read2_receive2(c) == Receive(c, "r2_recv2", i[c], i[c], "r_stop")

read1_wait_btc(c) ==
    WaitFlag(c, "r1_btc", "BTC", TRUE, "r1_rbne") /\ Frame

read1_wait_rbne(c) ==
    WaitFlag(c, "r1_rbne", "RBNE", TRUE, "r1_recv") /\ Frame

read1_receive(c) == Receive(c, "r1_recv", i[c], i[c], "r_stop")

read_stop(c) ==
    Goto(c, "r_stop", "r_stopwait") /\ i2c_stop_on_bus(c) /\ Frame

\* Mutant: the STOP bit is not awaited.
read_wait_stop_nowait(c) ==
    /\ Goto(c, "r_stopwait", "r_ackcur")
    /\ UNCHANGED <<active, args, ret, inner, touched, mem, hw, log>>

read_wait_stop(c) ==
    WaitStop(c, "r_stopwait", "r_ackcur") /\ Frame

read_ackpos_current(c) ==
    Goto(c, "r_ackcur", "r_acken") /\ i2c_ackpos_config(c, I2C_ACKPOS_CURRENT) /\ Frame

read_ack_enable(c) ==
    Goto(c, "r_acken", "r_return") /\ i2c_ack_config(c, I2C_ACK_ENABLE) /\ Frame

\* return BSP_I2C_OK;
read_return(c) ==
    /\ Return(c, "r_return", BSP_I2C_OK)
    /\ UNCHANGED <<active, args, touched, mem, hw, log>>

bsp_i2c0_read(c) ==
    \/ read_check(c)
    \/ read_ackpos_next(c)
    \/ read_wait_idle(c)
    \/ read_start(c)
    \/ read_wait_sbsend(c)
    \/ read_addressing(c)
    \/ read_wait_addsend(c)
    \/ read_clear_addsend(c)
    \/ read3_for(c)
    \/ read3_wait_btc(c)
    \/ read3_ack_disable(c)
    \/ read3_wait_rbne(c)
    \/ read3_receive(c)
    \/ read2_wait_btc(c)
    \/ read2_wait_rbne(c)
    \/ read2_receive(c)
    \/ read2_wait_rbne2(c)
    \/ read2_receive2(c)
    \/ read1_wait_btc(c)
    \/ read1_wait_rbne(c)
    \/ read1_receive(c)
    \/ read_stop(c)
    \/ read_wait_stop(c)
    \/ read_ackpos_current(c)
    \/ read_ack_enable(c)
    \/ read_return(c)

\* -------------------------------------------------- bsp_i2c0_reg8_read
\* bsp_i2c0_write(i2c_dev_7bit_addr, (uint8_t*)reg, 1);
call_bsp_i2c0_reg8_read(c) ==
    /\ Enter(c)
    /\ \E a \in DevAddrs, r \in Regs, p \in Addr :
         /\ top' = [top EXCEPT ![c] = "bsp_i2c0_reg8_read"]
         /\ addr' = [addr EXCEPT ![c] = a]
         /\ reg' = [reg EXCEPT ![c] = r]
         /\ value' = [value EXCEPT ![c] = p]
         /\ data' = [data EXCEPT ![c] = r]
    /\ count' = [count EXCEPT ![c] = 1]
    /\ pc' = [pc EXCEPT ![c] = "w_chk"]
    /\ NoLocals(c, {"i", "txbuffer"})

\* bsp_i2c0_read(i2c_dev_7bit_addr, value, 1);
reg8_read_read(c) ==
    /\ Goto(c, "g8r_read", "r_chk")
    /\ data' = [data EXCEPT ![c] = value[c]]
    /\ count' = [count EXCEPT ![c] = 1]
    /\ UNCHANGED <<active, top, addr, i, reg, value, txbuffer, ret, inner,
                   touched, mem, hw, log>>

\* Mutant: the function returns BSP_I2C_FAIL.
reg8_read_return_fail(c) ==
    /\ Goto(c, "g8r_return", "idle")
    /\ ret' = [ret EXCEPT ![c] = BSP_I2C_FAIL]
    /\ UNCHANGED <<active, args, inner, touched, mem, hw, log>>

\* return BSP_I2C_OK;
reg8_read_return(c) ==
    /\ Goto(c, "g8r_return", "idle")
    /\ ret' = [ret EXCEPT ![c] = BSP_I2C_OK]
    /\ UNCHANGED <<active, args, inner, touched, mem, hw, log>>

bsp_i2c0_reg8_read(c) ==
    \/ call_bsp_i2c0_reg8_read(c)
    \/ reg8_read_read(c)
    \/ reg8_read_return(c)

\* ------------------------------------------------------ specification
\* After reset and BSP initialisation: every context outside the driver, the
\* STOP bit clear, ACK enabled or not, ACK position current, any buffer contents.
InitDriver ==
    /\ pc = [c \in Ctx |-> "idle"]
    /\ top = [c \in Ctx |-> "none"]
    /\ addr = [c \in Ctx |-> 0]
    /\ data = [c \in Ctx |-> 0]
    /\ count = [c \in Ctx |-> 0]
    /\ i = [c \in Ctx |-> 0]
    /\ reg = [c \in Ctx |-> 0]
    /\ value = [c \in Ctx |-> 0]
    /\ txbuffer = [c \in Ctx |-> <<0, 0>>]
    /\ ret = [c \in Ctx |-> NoStatus]
    /\ inner = [c \in Ctx |-> <<>>]
    /\ touched = [c \in Ctx |-> FALSE]
    /\ mem \in [Addr -> ByteVals]
    /\ ack \in {I2C_ACK_ENABLE, I2C_ACK_DISABLE}
    /\ ackpos = I2C_ACKPOS_CURRENT
    /\ stopbit = FALSE
    /\ log = <<>>

\* A single caller.
Init == active = {1} /\ InitDriver

Next ==
    \/ \E c \in Ctx : call_bsp_i2c0_write(c)
    \/ \E c \in Ctx : bsp_i2c0_write(c)
    \/ \E c \in Ctx : bsp_i2c0_reg8_write(c)
    \/ \E c \in Ctx : call_bsp_i2c0_read(c)
    \/ \E c \in Ctx : bsp_i2c0_read(c)
    \/ \E c \in Ctx : bsp_i2c0_reg8_read(c)
    \/ HwStopDone

Spec == Init /\ [][Next]_vars

\* Two contexts and no lock: context 1 is the main program and context 2 an
\* interrupt handler that also writes to the bus.  The handler runs to its end
\* once entered; it preempts the main program anywhere, once per call of it.
Runnable(c) == \A d \in active : d > c => pc[d] = "idle"

MayEnter(c) == (\A d \in Others(c) : pc[d] = "idle") \/ (\A k \in 1 .. Len(log) : log[k].c # c)

\* Each context transmits from a buffer of its own.
SharedBuf(c) == BufBase + c - 1

InitShared ==
    /\ active = Ctx
    /\ InitDriver
    /\ ack = I2C_ACK_ENABLE
    /\ mem = [a \in Addr |-> IF a = BufBase THEN 17 ELSE 34]

NextShared ==
    \/ \E c \in Ctx :
         /\ Runnable(c) /\ MayEnter(c)
         /\ call_bsp_i2c0_write(c)
         /\ count'[c] <= MaxShared /\ data'[c] = SharedBuf(c)
    \/ \E c \in Ctx : Runnable(c) /\ bsp_i2c0_write(c)
    \/ HwStopDone

SpecShared == InitShared /\ [][NextShared]_vars

\* A step of the code of c that gets it past its current statement: the caller
\* is the only thread and runs on, and a polling loop ends when the awaited
\* value is read.
Run(c) ==
    /\ \/ bsp_i2c0_write(c)
       \/ bsp_i2c0_read(c)
       \/ reg8_write_return(c)
       \/ reg8_read_read(c)
       \/ reg8_read_return(c)
    /\ pc'[c] # pc[c]

\* Cooperative hardware: every awaited flag value is eventually read, and every
\* stop condition requested is generated.
Cooperative ==
    /\ \A c \in Ctx : WF_vars(Run(c))
    /\ WF_vars(HwStopDone)

LiveSpec == Init /\ [][Next]_vars /\ Cooperative

\* ============================================================ properties
\* Positions of the log holding an operation of c named in ops.
Pos(c, ops) == {k \in 1 .. Len(log) : log[k].c = c /\ log[k].op \in ops}
\* The operations of c named in ops, in order.
Sel(c, ops) == SelectSeq(log, LAMBDA e : e.c = c /\ e.op \in ops)
\* The n-th (from 0) smallest element of S.
Nth(S, n) == CHOOSE k \in S : Cardinality({j \in S : j < k}) = n
Last(S) == CHOOSE k \in S : \A j \in S : j <= k

\* The log holds no operation of c.
Quiet(c) == \A k \in 1 .. Len(log) : log[k].c # c

\* Context c's call of f has returned.
Done(c, f) == pc[c] = "idle" /\ top[c] = f
\* A bsp_i2c0_read of c with count >= 1 has returned.
ReadDone(c) ==
    \/ Done(c, "bsp_i2c0_read") /\ ret[c] = BSP_I2C_OK
    \/ top[c] = "bsp_i2c0_reg8_read" /\ pc[c] \in {"g8r_return", "idle"}

\* C1: bsp_i2c0_write called with count = 0 returns BSP_I2C_FAIL at its first
\* statement, having accessed no flag, no register and no bus operation, and
\* leaving the control bits, the memory and the log as they were.
C1_WriteZeroCount ==
    [][\A c \in Ctx :
         (pc[c] = "w_chk" /\ count[c] = 0 /\ pc'[c] # pc[c]) =>
            /\ pc'[c] = "idle"
            /\ ret'[c] = BSP_I2C_FAIL
            /\ ~touched'[c]
            /\ Quiet(c)'
            /\ UNCHANGED <<hw, mem, log>>]_vars

C1_Witness ==
    /\ Done(1, "bsp_i2c0_write") /\ count[1] = 0
    /\ ret[1] = BSP_I2C_FAIL /\ ~touched[1]

\* C2: bsp_i2c0_read called with count = 0 returns BSP_I2C_FAIL at its first
\* statement: ACK position and ACK enable keep their values, nothing of the
\* peripheral is accessed and no byte of memory is written.
C2_ReadZeroCount ==
    [][\A c \in Ctx :
         (pc[c] = "r_chk" /\ count[c] = 0 /\ pc'[c] # pc[c]) =>
            /\ pc'[c] = "idle"
            /\ ret'[c] = BSP_I2C_FAIL
            /\ ~touched'[c]
            /\ ack' = ack /\ ackpos' = ackpos /\ stopbit' = stopbit
            /\ mem' = mem
            /\ log' = log /\ Quiet(c)']_vars

C2_Witness ==
    /\ Done(1, "bsp_i2c0_read") /\ count[1] = 0
    /\ ret[1] = BSP_I2C_FAIL /\ ~touched[1]

\* C3: a bsp_i2c0_read that returned with count >= 1 did exactly count
\* receives; the k-th byte received is in data[k], and the operation logged
\* before each receive is a poll that saw RBNE set.
C3_ReadReceivesCount ==
    \A c \in Ctx : ReadDone(c) =>
        LET rx == Pos(c, {"receive"}) IN
        /\ Cardinality(rx) = count[c]
        /\ \A n \in 0 .. count[c] - 1 :
             LET k == Nth(rx, n) IN
             /\ mem[data[c] + n] = log[k].arg
             /\ k > 1
             /\ log[k - 1] = Ev(c, "RBNE", 1)

C3_Witness ==
    /\ Done(1, "bsp_i2c0_read") /\ count[1] = MaxCount /\ ret[1] = BSP_I2C_OK
    /\ mem[data[1]] # mem[data[1] + 1]

\* C4: a bsp_i2c0_read that returned disabled ACK exactly once, between
\* clearing ADDSEND and the stop, and for count >= 3 before the last receive.
C4_AckDisabledOnce ==
    \A c \in Ctx : ReadDone(c) =>
        LET dis == Pos(c, {I2C_ACK_DISABLE})
            clr == Last(Pos(c, {"clear_ADDSEND"}))
            stp == Last(Pos(c, {"stop"}))
        IN
        /\ Cardinality(dis) = 1
        /\ \A d \in dis :
             /\ clr < d /\ d < stp
             /\ count[c] >= 3 => d < Last(Pos(c, {"receive"}))

\* C5: bsp_i2c0_reg8_read has transmitted one data byte, reg, in its write
\* transaction and then received one byte, which is in *value.
C5_Reg8ReadSendsReg ==
    \A c \in Ctx : Done(c, "bsp_i2c0_reg8_read") =>
        LET io == Sel(c, {"transmit", "receive"}) IN
        /\ Len(io) = 2
        /\ io[1] = Ev(c, "transmit", reg[c])
        /\ io[2] = Ev(c, "receive", mem[value[c]])

\* C6: bsp_i2c0_reg8_write has made one bsp_i2c0_write call with count 2: one
\* start, the data bytes reg then value, one stop.
C6_Reg8WriteTwoBytes ==
    \A c \in Ctx : (top[c] = "bsp_i2c0_reg8_write" /\ pc[c] \in {"g8w_return", "idle"}) =>
        /\ Len(inner[c]) = 1
        /\ count[c] = 2
        /\ Sel(c, {"start", "stop", "transmit"}) =
             << Ev(c, "start", 0), Ev(c, "transmit", reg[c]),
                Ev(c, "transmit", value[c]), Ev(c, "stop", 0) >>

C6_Witness ==
    /\ Done(1, "bsp_i2c0_reg8_write")
    /\ reg[1] # value[1]

\* The bytes of caller memory the running call of c may write.
Owned(c) ==
    IF top[c] = "bsp_i2c0_read" THEN {a \in Addr : data[c] <= a /\ a < data[c] + count[c]}
    ELSE IF top[c] = "bsp_i2c0_reg8_read" THEN {value[c]}
    ELSE {}

\* C7: every step leaves each byte of caller memory unchanged, except a byte of
\* data[0..count-1] of a running bsp_i2c0_read or the byte *value of a running
\* bsp_i2c0_reg8_read.
C7_Frame ==
    [][\A a \in Addr : mem'[a] # mem[a] => \E c \in Ctx : a \in Owned(c)]_vars

C7_Witness ==
    /\ Done(1, "bsp_i2c0_read") /\ ret[1] = BSP_I2C_OK
    /\ count[1] = 3 /\ data[1] = BufBase
    /\ \A n \in 0 .. 2 : mem[BufBase + n] # mem[BufBase + 3]

\* C8: a reg8 function that has returned has returned BSP_I2C_OK.
C8_Reg8AlwaysOk ==
    \A c \in Ctx :
        (Done(c, "bsp_i2c0_reg8_write") \/ Done(c, "bsp_i2c0_reg8_read")) =>
            ret[c] = BSP_I2C_OK

C8_Witness ==
    /\ Done(1, "bsp_i2c0_reg8_read")
    /\ Len(inner[1]) = 2
    /\ ret[1] = BSP_I2C_OK

\* C9: bsp_i2c0_write and bsp_i2c0_read return BSP_I2C_FAIL when count = 0 and
\* BSP_I2C_OK when count >= 1, and nothing else, whatever the flags read.
C9_FailIffZero ==
    \A c \in Ctx :
        /\ (Done(c, "bsp_i2c0_write") \/ Done(c, "bsp_i2c0_read")) =>
              /\ ret[c] \in {BSP_I2C_OK, BSP_I2C_FAIL}
              /\ ret[c] = BSP_I2C_FAIL <=> count[c] = 0
        /\ \A k \in 1 .. Len(inner[c]) : inner[c][k] = BSP_I2C_OK

C9_Witness ==
    /\ Done(1, "bsp_i2c0_write") /\ count[1] = 1 /\ ret[1] = BSP_I2C_OK
    /\ Len(log) > 0

\* C10: when a bsp_i2c0_read with count >= 1 has returned, ACK position is
\* current and ACK is enabled; and ACK position current or ACK enable is only
\* ever configured after the read's stop and a read of the STOP bit as clear.
C10_AckRestored ==
    \A c \in Ctx :
        /\ ReadDone(c) => (ackpos = I2C_ACKPOS_CURRENT /\ ack = I2C_ACK_ENABLE)
        /\ \A j \in Pos(c, {I2C_ACKPOS_CURRENT, I2C_ACK_ENABLE}) :
             \E n, k, l \in 1 .. j :
                /\ n < k /\ k < l /\ l < j
                /\ log[n] = Ev(c, I2C_ACKPOS_NEXT, 0)
                /\ log[k] = Ev(c, "stop", 0)
                /\ log[l] = Ev(c, "STOP", 0)

C10_Witness ==
    /\ Done(1, "bsp_i2c0_read") /\ ret[1] = BSP_I2C_OK /\ count[1] = 2
    /\ Pos(1, {I2C_ACK_ENABLE}) # {}

\* The polling loops: the statement of each and what it awaits.
Awaits ==
    [p \in {"w_bsy", "r_bsy"} |-> Ev(0, "I2CBSY", 0)] @@
    [p \in {"w_sbsend", "r_sbsend"} |-> Ev(0, "SBSEND", 1)] @@
    [p \in {"w_addsend", "r_addsend"} |-> Ev(0, "ADDSEND", 1)] @@
    [p \in {"w_tbe", "w_tbe2"} |-> Ev(0, "TBE", 1)] @@
    [p \in {"r3_btc", "r2_btc", "r1_btc"} |-> Ev(0, "BTC", 1)] @@
    [p \in {"r3_rbne", "r2_rbne", "r2_rbne2", "r1_rbne"} |-> Ev(0, "RBNE", 1)] @@
    [p \in {"w_stopwait", "r_stopwait"} |-> Ev(0, "STOP", 0)]

\* C11: a call inside a polling loop has no way out but reading the awaited
\* value: a step either leaves it in the loop, with no operation done, nothing
\* configured and nothing returned, or logs the awaited value as read (for the
\* STOP bit, with the bit clear) and goes on.
C11_NoTimeout ==
    [][\A c \in Ctx : pc[c] \in DOMAIN Awaits =>
         \/ /\ pc'[c] = pc[c]
            /\ log' = log
            /\ ret'[c] = NoStatus /\ inner'[c] = inner[c]
            /\ UNCHANGED <<ack, ackpos, mem>>
         \/ /\ pc'[c] # pc[c]
            /\ log' = Append(log, Ev(c, Awaits[pc[c]].op, Awaits[pc[c]].arg))
            /\ Awaits[pc[c]].op = "STOP" => ~stopbit]_vars

\* The busy flag has been read, and not as clear.
C11_Witness ==
    /\ pc[1] = "w_bsy" /\ touched[1] /\ log = <<>>

\* What a bsp_i2c0_write of c that transmits `bytes` does, in order.
WriteLog(c, bytes) ==
    << Ev(c, "I2CBSY", 0), Ev(c, "start", 0), Ev(c, "SBSEND", 1),
       Ev(c, I2C_TRANSMITTER, addr[c] * 2),
       Ev(c, "ADDSEND", 1), Ev(c, "clear_ADDSEND", 0), Ev(c, "TBE", 1) >>
    \o [j \in 1 .. 2 * Len(bytes) |->
          IF j % 2 = 1 THEN Ev(c, "transmit", bytes[(j + 1) \div 2])
          ELSE Ev(c, "TBE", 1)]
    \o << Ev(c, "stop", 0), Ev(c, "STOP", 0) >>

\* C12: a bsp_i2c0_write with count >= 1 that has returned did exactly this:
\* busy read clear, start, start-sent read, address shifted left as
\* transmitter, ADDSEND read and cleared, TBE read, then each of
\* data[0..count-1] in order followed by a TBE read, one stop, STOP read clear.
C12_WriteSequence ==
    \A c \in Ctx :
        /\ (Done(c, "bsp_i2c0_write") /\ ret[c] = BSP_I2C_OK) =>
              log = WriteLog(c, [k \in 1 .. count[c] |-> mem[data[c] - count[c] + k - 1]])
        /\ (top[c] = "bsp_i2c0_reg8_write" /\ pc[c] \in {"g8w_return", "idle"}) =>
              log = WriteLog(c, txbuffer[c])

C12_Witness ==
    /\ Done(1, "bsp_i2c0_write") /\ ret[1] = BSP_I2C_OK /\ count[1] = 3
    /\ mem[data[1] - 3] # mem[data[1] - 2]

\* How a bsp_i2c0_read of c begins.
ReadHead(c) ==
    << Ev(c, I2C_ACKPOS_NEXT, 0), Ev(c, "I2CBSY", 0), Ev(c, "start", 0),
       Ev(c, "SBSEND", 1), Ev(c, I2C_RECEIVER, addr[c] * 2),
       Ev(c, "ADDSEND", 1), Ev(c, "clear_ADDSEND", 0) >>

\* C13: a bsp_i2c0_read that has touched the peripheral configured ACK
\* position next first; one that has returned with count >= 1 began with ACK
\* position next, busy read clear, start, start-sent read, address as receiver,
\* ADDSEND read and cleared, received only after that, and did one start and
\* one stop, the stop after the last receive.
C13_ReadSequence ==
    \A c \in Ctx :
        /\ (top[c] = "bsp_i2c0_read" /\ touched[c]) =>
              (log # <<>> /\ log[1] = Ev(c, I2C_ACKPOS_NEXT, 0))
        /\ (Done(c, "bsp_i2c0_read") /\ ret[c] = BSP_I2C_OK) =>
              /\ SubSeq(log, 1, 7) = ReadHead(c)
              /\ \A k \in Pos(c, {"receive"}) : k > 7
              /\ Cardinality(Pos(c, {"start"})) = 1
              /\ Cardinality(Pos(c, {"stop"})) = 1
              /\ Last(Pos(c, {"stop"})) > Last(Pos(c, {"receive"}))

C13_Witness ==
    /\ Done(1, "bsp_i2c0_read") /\ ret[1] = BSP_I2C_OK /\ count[1] = 3

\* The polls and receives that fill data[lo..hi].
RxSeq(c, lo, hi) ==
    [j \in 1 .. 2 * (hi - lo + 1) |->
       IF j % 2 = 1 THEN Ev(c, "RBNE", 1)
       ELSE Ev(c, "receive", mem[data[c] + lo + (j \div 2) - 1])]

\* What a returned bsp_i2c0_read did between clearing ADDSEND and the stop.
DataPhase == SubSeq(log, 8, Len(log) - 4)

\* C14: a bsp_i2c0_read with count >= 3 is at the BTC poll and the ACK disable
\* only with i = count - 3; when it has returned, it had received count - 3
\* bytes, each after an RBNE read, then read BTC set and disabled ACK, then
\* received the last three bytes, each after an RBNE read.
C14_AckDisableAtThree ==
    \A c \in Ctx :
        /\ pc[c] \in {"r3_btc", "r3_ackdis"} => (count[c] >= 3 /\ i[c] = count[c] - 3)
        /\ (Done(c, "bsp_i2c0_read") /\ count[c] >= 3) =>
              DataPhase = RxSeq(c, 0, count[c] - 4)
                          \o << Ev(c, "BTC", 1), Ev(c, I2C_ACK_DISABLE, 0) >>
                          \o RxSeq(c, count[c] - 3, count[c] - 1)

C14_Witness ==
    /\ Done(1, "bsp_i2c0_read") /\ count[1] = 4

C17_Reg8ReadTwoTransactions ==
    \A c \in Ctx : top[c] = "bsp_i2c0_reg8_read" =>
        LET ss == Sel(c, {"start", "stop"})
            four == << Ev(c, "start", 0), Ev(c, "stop", 0),
                       Ev(c, "start", 0), Ev(c, "stop", 0) >>
        IN
        /\ Len(ss) <= 4 /\ ss = SubSeq(four, 1, Len(ss))
        /\ \A j \in Pos(c, {I2C_ACKPOS_NEXT}) :
             /\ j = 12
             /\ log[j - 2] = Ev(c, "stop", 0)
             /\ log[j - 1] = Ev(c, "STOP", 0)
        /\ pc[c] \in {"g8r_return", "idle"} =>
             /\ ss = four
             /\ SubSeq(log, 12, 18) = ReadHead(c)

C17_Witness ==
    /\ Done(1, "bsp_i2c0_reg8_read")
    /\ Len(log) > 18

\* The loops of the call of c that has returned ran count times each.
Iterations(c) ==
    LET tx == Cardinality(Pos(c, {"transmit"}))
        rx == Cardinality(Pos(c, {"receive"}))
    IN
    CASE top[c] = "bsp_i2c0_write" -> tx = count[c] /\ rx = 0
      [] top[c] = "bsp_i2c0_read" -> tx = 0 /\ rx = count[c]
      [] top[c] = "bsp_i2c0_reg8_write" -> tx = 2 /\ rx = 0
      [] top[c] = "bsp_i2c0_reg8_read" -> tx = 1 /\ rx = 1
      [] OTHER -> FALSE

\* C16: with cooperative hardware every call returns, its transmit loop and
\* its receive loop having run exactly count times.
C16_Terminates ==
    \A c \in Ctx : (pc[c] # "idle") ~> (pc[c] = "idle" /\ Iterations(c))

C16_Witness ==
    /\ Done(1, "bsp_i2c0_read") /\ count[1] = MaxCount /\ ret[1] = BSP_I2C_OK
    /\ Iterations(1)

\* No stop condition lies between positions j and k of the log.
NoStopBetween(j, k) == \A m \in (j + 1) .. (k - 1) : log[m].op # "stop"

\* C18: nothing of the driver keeps two callers apart.  Each caller by itself
\* alternates start and stop, so two starts with no stop between them are never
\* by the same caller, and a returned bsp_i2c0_write whose operations are in
\* the log did one start and then one stop.
C18_NoMutualExclusion ==
    /\ \A j, k \in 1 .. Len(log) :
          (j < k /\ log[j].op = "start" /\ log[k].op = "start" /\ NoStopBetween(j, k))
             => log[j].c # log[k].c
    /\ \A c \in Ctx :
          (Done(c, "bsp_i2c0_write") /\ ~Quiet(c)) =>
             Sel(c, {"start", "stop"}) = << Ev(c, "start", 0), Ev(c, "stop", 0) >>

\* Both callers have read the bus as idle and both have sent a start, with no
\* stop between the two starts, and a data byte of each lies inside the one
\* transaction.
C18_Witness ==
    \E j, k \in 1 .. Len(log) :
        /\ j < k
        /\ log[j] = Ev(1, "start", 0) /\ log[k] = Ev(2, "start", 0)
        /\ NoStopBetween(j, k)
        /\ \E a \in 1 .. j : log[a] = Ev(1, "I2CBSY", 0)
        /\ \E b \in j .. k : log[b] = Ev(2, "I2CBSY", 0)
        /\ \E t1, t2 \in j .. Len(log) :
             /\ log[t1] = Ev(1, "transmit", mem[SharedBuf(1)])
             /\ log[t2] = Ev(2, "transmit", mem[SharedBuf(2)])
             /\ NoStopBetween(j, t1) /\ NoStopBetween(j, t2)
====
